---- MODULE Spec2Model ----
(***************************************************************************)
(* A model of summary-issues (src/main.go): one run of testableMain over   *)
(* one webhook event, the GraphQL calls it issues against the tracker, and *)
(* the pure functions it renders a summary body with.                      *)
(*                                                                         *)
(* Text is a sequence of one-character strings; a regular expression given *)
(* by -summaryCommentRegex is a literal (a sequence of characters with no  *)
(* metacharacter), so MatchString is substring containment.                *)
(***************************************************************************)
EXTENDS Integers, Sequences, FiniteSets, TLC

\* ------------------------------------------------------------------ bounds
\* Longest text given to replaceHeadings in SpecHeadings.
MaxTextLen == 5
\* Most comments on one issue in SpecSelect.
MaxComments == 3
\* Most labels on one issue of the tracker.
MaxLabels == 3

\* ------------------------------------------------------------------- text
\* The characters texts are made of: a heading mark, a word character, a
\* character that is neither, and a line break.
Chars == {"#", "a", " ", "\n"}

\* \w of Go's regexp: [0-9A-Za-z_], as far as Chars and the patterns go.
WordChars == {"a", "b", "_", "0"}

RECURSIVE TextsUpTo(_)
TextsUpTo(n) ==
  IF n = 0 THEN {<<>>}
  ELSE LET shorter == TextsUpTo(n - 1)
       IN shorter \cup {Append(t, c) : t \in {u \in shorter : Len(u) = n - 1}, c \in Chars}

\* (?m)^ at index i (1-based, the place before s[i]).
LineStart(s, i) == i = 1 \/ s[i - 1] = "\n"

\* (?m)$ at index e (the place before s[e], Len(s)+1 for the end of the text).
LineEnd(s, e) == e = Len(s) + 1 \/ s[e] = "\n"

\* The end of the greedy \w* begun at i: the first index at or after i that
\* holds no word character.
RECURSIVE WordRunEnd(_, _)
WordRunEnd(s, i) ==
  IF i <= Len(s) /\ s[i] \in WordChars THEN WordRunEnd(s, i + 1) ELSE i

\* The end of the greedy [^#]* begun at i; the class matches a line break too.
RECURSIVE NonHashRunEnd(_, _)
NonHashRunEnd(s, i) ==
  IF i <= Len(s) /\ s[i] # "#" THEN NonHashRunEnd(s, i + 1) ELSE i

\* The match of (?m)^\w*#{k}([^#]*)$ that begins at i, as <<c, e>>: the
\* group is s[c..e-1] and the match s[i..e-1]; <<0, 0>> when there is none.
\* [^#]* is greedy and gives characters back until $ holds.
HeadingMatchAt(s, i, k) ==
  IF ~LineStart(s, i) THEN <<0, 0>>
  ELSE LET h == WordRunEnd(s, i)
           c == h + k
       IN IF c > Len(s) + 1 \/ \E j \in h..(c - 1) : s[j] # "#" THEN <<0, 0>>
          ELSE LET r    == NonHashRunEnd(s, c)
                   ends == {e \in c..r : LineEnd(s, e)}
               IN IF ends = {} THEN <<0, 0>>
                  ELSE <<c, CHOOSE e \in ends : \A f \in ends : f <= e>>

\* regexp.ReplaceAllString(s, "###$1") for that pattern, from index pos on:
\* the leftmost match is replaced and the search goes on at its end.
RECURSIVE ReplaceHeadingsFrom(_, _, _)
ReplaceHeadingsFrom(s, pos, k) ==
  LET starts == {i \in pos..Len(s) : HeadingMatchAt(s, i, k) # <<0, 0>>}
  IN IF starts = {} THEN SubSeq(s, pos, Len(s))
     ELSE LET i == CHOOSE x \in starts : \A y \in starts : x <= y
              m == HeadingMatchAt(s, i, k)
          IN SubSeq(s, pos, i - 1) \o <<"#", "#", "#">> \o SubSeq(s, m[1], m[2] - 1)
               \o ReplaceHeadingsFrom(s, m[2], k)

\* var h1 = regexp.MustCompile(`(?m)^\w*#([^#]*)$`), replaced by "###$1".
h1Replace(s) == ReplaceHeadingsFrom(s, 1, 1)

\* var h2 = regexp.MustCompile(`(?m)^\w*##([^#]*)$`), replaced by "###$1".
h2Replace(s) == ReplaceHeadingsFrom(s, 1, 2)

replaceHeadings(s) == h1Replace(h2Replace(s))

\* ----------------------------------------------------------------- labels
\* isany(s, v...): s is one of v (a set here).
isany(s, v) == \E x \in v : s = x

\* labels.contains(s): a labels value is the sequence of its labels' names.
contains(l, s) == \E n \in 1..Len(l) : l[n] = s

\* labels.nonSummaryLabels()
nonSummaryLabels(l) == SelectSeq(l, LAMBDA name : name # "summary")

\* fmt.Sprintf("%q", name), for a name of letters: the name in double quotes.
Quote(name) == "\"" \o name \o "\""

\* strings.Join(ls, sep)
RECURSIVE Join(_, _)
Join(ls, sep) ==
  IF Len(ls) = 0 THEN ""
  ELSE IF Len(ls) = 1 THEN ls[1]
  ELSE ls[1] \o sep \o Join(Tail(ls), sep)

\* labels.queryFilter()
queryFilter(l) ==
  LET nl == nonSummaryLabels(l)
      ls == [n \in 1..Len(nl) |-> Quote(nl[n])]
  IN IF Len(ls) = 0 THEN "" ELSE "label:" \o Join(ls, ",")

\* --------------------------------------------------------------- comments
\* A comment is [Author, Body, UpdatedAt]; a pointer is <<>> (nil) or <<x>>.
Nil == <<>>

\* (*regexp.Regexp).MatchString of a literal: the body contains it.
MatchString(r, body) ==
  \E i \in 0..(Len(body) - Len(r)) : SubSeq(body, i + 1, i + Len(r)) = r

\* The loop of comments.lastMatch, at index j (1-based), going down.
RECURSIVE lastMatchFrom(_, _, _)
lastMatchFrom(c, r, j) ==
  IF j < 1 THEN Nil
  ELSE IF MatchString(r, c[j].Body) THEN <<c[j]>>
  ELSE lastMatchFrom(c, r, j - 1)

\* A lastMatch that looks at the newest comment only.
lastMatchNewestOnly(c, r) ==
  IF Len(c) > 0 /\ MatchString(r, c[Len(c)].Body) THEN <<c[Len(c)]>> ELSE Nil

\* comments.lastMatch(r)
lastMatch(c, r) == lastMatchFrom(c, r, Len(c))

\* -------------------------------------------------------------- rendering
\* The owner of the tracker's repositories.
Owner == "acme"

\* searchURL(query): the server's /search page with q set to the query.
searchURL(query) == [path |-> "/search", q |-> query]

\* A summarizedIssues that never searches.
summarizedIssuesNoSearch(owner, si) == Nil

\* summarizedIssues: the query it searches with, Nil (no search) for an
\* empty filter.
summarizedIssuesQuery(owner, si) ==
  LET qf == queryFilter(si.labels)
  IN IF qf = "" THEN Nil ELSE <<"user:" \o owner \o " " \o qf>>

\* The first line of the body: the regular expression (empty: the newest
\* comment) and the link of "issues with matching labels" (Nil: plain text).
Preamble(owner, re, si) ==
  LET qf == queryFilter(si.labels)
  IN <<"preamble", re,
       IF qf # "" THEN <<searchURL("type:issue user:" \o owner \o " " \o qf)>> ELSE Nil>>

\* What the loop of generateIssueSummary writes for one issue of the search.
Section(re, i) ==
  LET c == lastMatch(i.Comments, re)
  IN <<<<"heading", i.Title, i.URL>>>>
     \o (IF c # Nil
         THEN <<<<"comment", replaceHeadings(c[1].Body)>>,
                <<"updated", c[1].UpdatedAt, c[1].Author>>>>
         ELSE <<<<"noupdate">>>>)

\* A loop that skips no issue: the summary issue gets a section of its own.
RECURSIVE SummaryLoopNoSkip(_, _, _, _)
SummaryLoopNoSkip(re, si, issues, st) ==
  IF issues = <<>> THEN st
  ELSE SummaryLoopNoSkip(re, si, Tail(issues),
                         [body |-> st.body \o Section(re, Head(issues)), content |-> TRUE])

\* The loop of generateIssueSummary over the issues of the search, from the
\* state st = [body, content]: an issue with the summary issue's id is
\* skipped, any other sets content and writes its section.
RECURSIVE SummaryLoop(_, _, _, _)
SummaryLoop(re, si, issues, st) ==
  IF issues = <<>> THEN st
  ELSE LET i == Head(issues)
       IN SummaryLoop(re, si, Tail(issues),
                      IF i.ID = si.id THEN st
                      ELSE [body |-> st.body \o Section(re, i), content |-> TRUE])

\* A generateIssueSummary that writes "No matching issues." for an empty
\* search result only, not when every issue of it was skipped.
generateIssueSummaryEmptyOnly(owner, re, si, issues) ==
  LET st == SummaryLoop(re, si, issues,
                        [body |-> <<Preamble(owner, re, si)>>, content |-> FALSE])
  IN IF issues = <<>> THEN st.body \o <<<<"nomatch">>>> ELSE st.body

\* generateIssueSummary once summarizedIssues has returned issues: the body,
\* a sequence of the pieces written to it, one per Fprintf or Fprintln.
generateIssueSummary(owner, re, si, issues) ==
  LET st == SummaryLoop(re, si, issues,
                        [body |-> <<Preamble(owner, re, si)>>, content |-> FALSE])
  IN IF ~st.content THEN st.body \o <<<<"nomatch">>>> ELSE st.body

\* ---------------------------------------------------------------- tracker
\* The issues of the tracker, in the order a search returns them.
Ids == <<"I1", "I2", "I3">>

IdSet == {Ids[n] : n \in 1..Len(Ids)}

LabelNames == {"summary", "bug", "docs"}

\* The label lists an issue may carry: no name twice, MaxLabels at most.
RECURSIVE LabelSeqsUpTo(_)
LabelSeqsUpTo(n) ==
  IF n = 0 THEN {<<>>}
  ELSE LET shorter == LabelSeqsUpTo(n - 1)
       IN shorter \cup UNION {{Append(l, x) : x \in LabelNames \ {l[k] : k \in 1..Len(l)}} :
                                 l \in {u \in shorter : Len(u) = n - 1}}

LabelSeqs == LabelSeqsUpTo(MaxLabels)

\* The tracker lists an issue's labels in the order of their names.
LabelOrder == <<"bug", "docs", "summary">>

SortedLabelSeqs ==
  {l \in LabelSeqs : \A a, b \in 1..Len(l) :
     a < b => \E x, y \in 1..Len(LabelOrder) : x < y /\ LabelOrder[x] = l[a] /\ LabelOrder[y] = l[b]}

Title == [id \in IdSet |-> "Title of " \o id]

URL == [id \in IdSet |-> "https://github.com/acme/repo/issues/" \o id]

\* The comments of each issue, oldest first.
Comments ==
  [id \in IdSet |->
     CASE id = "I1" -> <<>>
       [] id = "I2" -> <<[Author |-> "ann", Body |-> <<"a", "#", " ", "a">>, UpdatedAt |-> 1],
                         [Author |-> "bob", Body |-> <<"#", "\n", "b">>, UpdatedAt |-> 2]>>
       [] OTHER     -> <<[Author |-> "cyd", Body |-> <<"b">>, UpdatedAt |-> 3]>>]

\* The body an issue has before the run.
OldBody(id) == <<<<"written by hand", id>>>>

\* The tracker's reading of a label filter: label:"a","b" names a and b, and
\* matches an issue that carries a or b. A filter it cannot read names none.
FilterText(l) == "label:" \o Join([n \in 1..Len(l) |-> "\"" \o l[n] \o "\""], ",")

FilterLabels(qf) ==
  LET known == {l \in LabelSeqs : l # <<>> /\ FilterText(l) = qf}
  IN IF known = {} THEN <<>> ELSE CHOOSE l \in known : TRUE

\* The last term of a query that begins with prefix; "" when it does not.
QueryFilterOf(query, prefix) ==
  LET known == {l \in LabelSeqs : l # <<>> /\ query = prefix \o FilterText(l)}
  IN IF known = {} THEN "" ELSE FilterText(CHOOSE l \in known : TRUE)

\* search(type: ISSUE, query: "is:open user:U label:summary label:...") of
\* getSummaryIssues: id, title and labels of the issues that carry summary
\* and one of the labels. Every issue of the model is open.
SummaryIssuesResponse(tr, query) ==
  LET qf == QueryFilterOf(query, "is:open user:" \o Owner \o " label:summary ")
      ls == FilterLabels(qf)
      hit(id) == /\ contains(tr[id].labels, "summary")
                 /\ \E n \in 1..Len(ls) : contains(tr[id].labels, ls[n])
  IN [n \in 1..Len(SelectSeq(Ids, hit)) |->
        LET id == SelectSeq(Ids, hit)[n]
        IN [ID |-> id, Title |-> Title[id], Labels |-> tr[id].labels]]

\* search(type: ISSUE, query: "user:U label:...") of searchIssues: id, url,
\* title and comments of the issues, open or not, that carry one of the labels.
SearchIssuesResponse(tr, query) ==
  LET qf == QueryFilterOf(query, "user:" \o Owner \o " ")
      ls == FilterLabels(qf)
      hit(id) == \E n \in 1..Len(ls) : contains(tr[id].labels, ls[n])
  IN [n \in 1..Len(SelectSeq(Ids, hit)) |->
        LET id == SelectSeq(Ids, hit)[n]
        IN [ID |-> id, Title |-> Title[id], URL |-> URL[id], Comments |-> Comments[id]]]

\* ------------------------------------------------------------------ state
VARIABLES
  env,      \* the process's environment, event file and arguments
  user,     \* opts.user
  event,    \* opts.event: [Name, Action, Issue, Label], Issue and Label pointers
  re,       \* opts.summaryCommentRegex
  tracker,  \* the tracker's issues: [labels, body] by id
  pc,       \* where the run is
  caller,   \* who called updateSummaryIssue: "direct" (testableMain) or "loop"
  cascade,  \* the labels given to updateSummaryIssues
  queue,    \* the summary issues updateSummaryIssues has yet to update
  cur,      \* the issue updateSummaryIssue is updating
  sources,  \* what summarizedIssues returned for it
  calls,    \* the GraphQL calls made so far, in order
  result,   \* "running", then "ok" (nil), "error" (an error) or "panic"
  arg,      \* the argument of the function under check (SpecRender, ...)
  ret       \* and what it returned

vars == <<env, user, event, re, tracker, pc, caller, cascade, queue, cur, sources, calls,
          result, arg, ret>>

NoIssue == [id |-> "", title |-> "", labels |-> <<>>]

\* The actions the direct update of line 36 is made for.
DirectActions == {"edited", "labeled", "unlabeled", "opened"}

Actions == DirectActions \cup {"closed"}

\* The regular expressions a run is configured with.
Regexps == {<<>>, <<"a">>}

\* The restIssue of a webhook payload for issue id.
RestIssue(tr, id) == [ID |-> id, Title |-> Title[id], Labels |-> tr[id].labels]

\* The label a labeled or unlabeled event on issue i (a pointer) can name:
\* one the issue now carries, or one it no longer carries; or none, when the
\* payload leaves "label" out.
ChangedLabels(a, i) ==
  {Nil} \cup {<<[Name |-> n]>> : n \in
     {m \in LabelNames : i = Nil \/ (a = "labeled") = contains(i[1].Labels, m)}}

\* The events a tracker in state tr sends; a payload may leave "issue" out.
Events(tr) ==
  LET issues == {Nil} \cup {<<RestIssue(tr, id)>> : id \in IdSet}
  IN {[Name |-> "issues", Action |-> a, Issue |-> i, Label |-> Nil] :
        a \in Actions \ {"labeled", "unlabeled"}, i \in issues}
     \cup UNION {{[Name |-> "issues", Action |-> a, Issue |-> i, Label |-> l] :
                    l \in ChangedLabels(a, i)} : a \in {"labeled", "unlabeled"}, i \in issues}
     \cup {[Name |-> "issue_comment", Action |-> "created", Issue |-> i, Label |-> Nil] :
             i \in issues}
     \cup {[Name |-> n, Action |-> "", Issue |-> Nil, Label |-> Nil] : n \in {"schedule", "push"}}

\* The trackers a run starts on.
Trackers ==
  {[id \in IdSet |-> [labels |-> ls[id], body |-> OldBody(id)]] :
     ls \in [IdSet -> SortedLabelSeqs]}

Idle ==
  /\ caller = "" /\ cascade = <<>> /\ queue = <<>> /\ cur = NoIssue
  /\ sources = <<>> /\ calls = <<>>

\* The event before the payload is decoded.
NoEvent == [Name |-> "", Action |-> "", Issue |-> Nil, Label |-> Nil]

\* GITHUB_REPOSITORY, as its parts between the slashes.
Repository == <<Owner, "repo">>

\* The arguments: none, or -summaryCommentRegex with a regular expression.
ArgsFor(r) ==
  IF r = <<>> THEN [flag |-> "", value |-> <<>>]
  ELSE [flag |-> "summaryCommentRegex", value |-> r]

\* The environment of a run on event e with regular expression r: file is
\* what GITHUB_EVENT_PATH names, Nil when it cannot be read; its name is the
\* payload's "name" key, which the untagged field Name decodes too.
EnvFor(e, r) ==
  [GITHUB_REPOSITORY |-> Repository,
   GITHUB_EVENT_PATH |-> "event.json",
   GITHUB_EVENT_NAME |-> e.Name,
   file |-> <<[json |-> TRUE, name |-> Nil, action |-> e.Action, issue |-> e.Issue,
               label |-> e.Label]>>,
   args |-> ArgsFor(r)]

\* The environments githubActionOptions refuses: one thing wrong in the
\* environment of an event with the payload {}.
BrokenEnvs ==
  LET base(n) == EnvFor([NoEvent EXCEPT !.Name = n], <<>>)
      names   == {"issues", "issue_comment", "schedule", "push"}
  IN UNION {{[base(n) EXCEPT !.GITHUB_REPOSITORY = <<Owner>>],
             [base(n) EXCEPT !.GITHUB_REPOSITORY = <<"", "repo">>],
             [base(n) EXCEPT !.GITHUB_EVENT_PATH = ""],
             [base(n) EXCEPT !.file = Nil],
             [base(n) EXCEPT !.file = <<[json |-> FALSE, name |-> Nil, action |-> "",
                                         issue |-> Nil, label |-> Nil]>>],
             [base(n) EXCEPT !.args = [flag |-> "verbose", value |-> <<>>]],
             [base(n) EXCEPT !.args = [flag |-> "summaryCommentRegex", value |-> <<"(">>]]} :
            n \in names}
     \cup {base("")}

\* The environments whose payload carries a "name" of its own.
NamedEnvs ==
  {[EnvFor([NoEvent EXCEPT !.Name = "push"], <<>>) EXCEPT !.file[1].name = <<n>>] :
     n \in {"", "issues", "schedule"}}

Init ==
  /\ tracker \in Trackers
  /\ env \in {EnvFor(e, r) : e \in Events(tracker), r \in Regexps}
              \cup BrokenEnvs \cup NamedEnvs
  /\ user = "" /\ event = NoEvent /\ re = <<>>
  /\ pc = "options"
  /\ result = "running"
  /\ Idle
  /\ arg = <<>> /\ ret = <<>>

\* ------------------------------------------------------------------ calls
Call(kind, a, ok, resp) == [kind |-> kind, arg |-> a, ok |-> ok, resp |-> resp]

\* return x from testableMain
Exit(r) == pc' = "exit" /\ result' = r

\* updateSummaryIssue(opts, i) begins: summarizedIssues comes first.
Update(i, from) == cur' = i /\ caller' = from /\ pc' = "search" /\ sources' = <<>>

\* A loop that regenerates each issue from the changed labels, not its own.
LoopIssueChangedLabels(i) == [id |-> i.ID, title |-> i.Title, labels |-> cascade]

\* issue{id: i.ID, title: i.Title, labels: i.Labels.Nodes} of updateSummaryIssues
LoopIssue(i) == [id |-> i.ID, title |-> i.Title, labels |-> i.Labels]

\* issue{id: e.Issue.ID, title: e.Issue.Title, labels: e.Issue.Labels}
EventIssue(e) == [id |-> e.Issue[1].ID, title |-> e.Issue[1].Title, labels |-> e.Issue[1].Labels]

\* The query of getSummaryIssues.
getSummaryIssuesQuery(owner, labels) ==
  "is:open user:" \o owner \o " label:summary " \o queryFilter(labels)

\* The for loop of updateSummaryIssues over issues: the next issue, or return nil.
Loop(issues) ==
  IF issues = <<>>
  THEN Exit("ok") /\ queue' = <<>> /\ UNCHANGED <<cur, caller, sources>>
  ELSE Update(LoopIssue(Head(issues)), "loop") /\ queue' = Tail(issues) /\ UNCHANGED result

\* The labels the event's issue is matched by: e.Issue.Labels.nonSummaryLabels()
EventLabels(e) == nonSummaryLabels(e.Issue[1].Labels)

\* A direct update that does not ask for the summary label.
DirectUpdateAnyIssue(e) == isany(e.Action, DirectActions)

\* Whether testableMain updates the event's issue itself (line 36).
DirectUpdate(e) == contains(e.Issue[1].Labels, "summary") /\ isany(e.Action, DirectActions)

\* ---------------------------------------------------------------- options
\* regexp.Compile(re) succeeds: the literals, and not an unclosed group.
Compiles(r) == \A n \in 1..Len(r) : r[n] # "("

\* The error githubActionOptions returns for environment v, "" for none,
\* in the order it checks.
githubActionOptionsError(v) ==
  CASE Len(v.GITHUB_REPOSITORY) < 2 \/ v.GITHUB_REPOSITORY[1] = "" ->
         "invalid value for GITHUB_REPOSITORY env var"
    [] v.GITHUB_EVENT_PATH = "" -> "env var GITHUB_EVENT_PATH not set"
    [] v.file = Nil -> "unable to read GitHub event json"
    [] v.GITHUB_EVENT_NAME = "" -> "env var GITHUB_EVENT_NAME not set"
    [] ~v.file[1].json -> "unable to decode GitHub event"
    [] v.args.flag \notin {"", "summaryCommentRegex"} -> "flag provided but not defined"
    [] ~Compiles(v.args.value) -> "error parsing regexp"
    [] OTHER -> ""

\* ---------------------------------------------------------------- actions
\* githubActionOptions returns the options: the owner, the event decoded
\* from the file under the name of GITHUB_EVENT_NAME, the regular expression.
GithubActionOptions ==
  /\ pc = "options"
  /\ githubActionOptionsError(env) = ""
  /\ user' = env.GITHUB_REPOSITORY[1]
  /\ event' = [Name |-> IF env.file[1].name = Nil THEN env.GITHUB_EVENT_NAME
                        ELSE env.file[1].name[1],
               Action |-> env.file[1].action,
               Issue |-> env.file[1].issue, Label |-> env.file[1].label]
  /\ re' = env.args.value
  /\ pc' = "main"
  /\ UNCHANGED <<env, tracker, caller, cascade, queue, cur, sources, calls, result, arg, ret>>

\* githubActionOptions returns an error, and testableMain returns it.
GithubActionOptionsFails ==
  /\ pc = "options"
  /\ githubActionOptionsError(env) # ""
  /\ Exit("error")
  /\ UNCHANGED <<env, user, event, re, tracker, caller, cascade, queue, cur, sources, calls, arg, ret>>

\* case "issues": the direct update of a summary issue, or on to the switch.
MainIssues ==
  /\ pc = "main" /\ event.Name = "issues" /\ event.Issue # Nil
  /\ IF DirectUpdate(event)
     THEN Update(EventIssue(event), "direct")
     ELSE pc' = "switch" /\ UNCHANGED <<cur, caller, sources>>
  /\ UNCHANGED <<env, user, event, re, tracker, cascade, queue, calls, result, arg, ret>>

\* switch e.Action, after the direct update if there was one.
Switch ==
  /\ pc = "switch"
  /\ event.Action \in {"labeled", "unlabeled"} => event.Label # Nil
  /\ CASE event.Action \in {"labeled", "unlabeled"} ->
            IF event.Label[1].Name = "summary"
            THEN Exit("ok") /\ UNCHANGED cascade
            ELSE pc' = "query" /\ cascade' = <<event.Label[1].Name>> /\ UNCHANGED result
       [] event.Action = "opened" ->
            IF Len(EventLabels(event)) = 0
            THEN Exit("ok") /\ UNCHANGED cascade
            ELSE pc' = "query" /\ cascade' = EventLabels(event) /\ UNCHANGED result
       [] OTHER -> Exit("ok") /\ UNCHANGED cascade
  /\ UNCHANGED <<env, user, event, re, tracker, caller, queue, cur, sources, calls, arg, ret>>

\* case "issue_comment"
MainIssueComment ==
  /\ pc = "main" /\ event.Name = "issue_comment" /\ event.Issue # Nil
  /\ IF Len(EventLabels(event)) = 0
     THEN Exit("ok") /\ UNCHANGED cascade
     ELSE pc' = "query" /\ cascade' = EventLabels(event) /\ UNCHANGED result
  /\ UNCHANGED <<env, user, event, re, tracker, caller, queue, cur, sources, calls, arg, ret>>

\* case "schedule" and default: nothing to update.
MainNothing ==
  /\ pc = "main" /\ event.Name \notin {"issues", "issue_comment"}
  /\ Exit("ok")
  /\ UNCHANGED <<env, user, event, re, tracker, caller, cascade, queue, cur, sources, calls, arg, ret>>

\* e.Issue.Labels with e.Issue nil (lines 36 and 60), e.Label.Name with
\* e.Label nil (line 48): a nil pointer dereference, which panics.
NilDereference ==
  /\ \/ pc = "main" /\ event.Name \in {"issues", "issue_comment"} /\ event.Issue = Nil
     \/ pc = "switch" /\ event.Action \in {"labeled", "unlabeled"} /\ event.Label = Nil
  /\ Exit("panic")
  /\ UNCHANGED <<env, user, event, re, tracker, caller, cascade, queue, cur, sources, calls, arg, ret>>

\* getSummaryIssues answers: updateSummaryIssues goes into its loop.
GetSummaryIssues ==
  /\ pc = "query"
  /\ LET query == getSummaryIssuesQuery(user, cascade)
         resp  == SummaryIssuesResponse(tracker, query)
     IN /\ calls' = Append(calls, Call("SummaryIssues", <<query>>, TRUE, resp))
        /\ Loop(resp)
  /\ UNCHANGED <<env, user, event, re, tracker, cascade, arg, ret>>

\* getSummaryIssues fails: updateSummaryIssues returns the error.
GetSummaryIssuesFails ==
  /\ pc = "query"
  /\ calls' = Append(calls, Call("SummaryIssues", <<getSummaryIssuesQuery(user, cascade)>>, FALSE, <<>>))
  /\ Exit("error")
  /\ UNCHANGED <<env, user, event, re, tracker, caller, cascade, queue, cur, sources, arg, ret>>

\* summarizedIssues: no search for an empty filter, else searchIssues answers.
SummarizedIssues ==
  /\ pc = "search"
  /\ LET query == summarizedIssuesQuery(user, cur)
     IN IF query = Nil
        THEN sources' = <<>> /\ UNCHANGED calls
        ELSE LET resp == SearchIssuesResponse(tracker, query[1])
             IN /\ calls' = Append(calls, Call("SearchIssues", query, TRUE, resp))
                /\ sources' = resp
  /\ pc' = "mutate"
  /\ UNCHANGED <<env, user, event, re, tracker, caller, cascade, queue, cur, result, arg, ret>>

\* searchIssues fails: generateIssueSummary and updateSummaryIssue return the error.
SummarizedIssuesFails ==
  /\ pc = "search"
  /\ summarizedIssuesQuery(user, cur) # Nil
  /\ calls' = Append(calls, Call("SearchIssues", summarizedIssuesQuery(user, cur), FALSE, <<>>))
  /\ Exit("error")
  /\ UNCHANGED <<env, user, event, re, tracker, caller, cascade, queue, cur, sources, arg, ret>>

\* The UpdateIssue mutation succeeds; updateSummaryIssue returns nil to
\* testableMain (on to the switch) or to the loop of updateSummaryIssues.
UpdateIssue ==
  /\ pc = "mutate"
  /\ LET body == generateIssueSummary(user, re, cur, sources)
     IN /\ calls' = Append(calls, Call("UpdateIssue", <<cur.id, body>>, TRUE, <<>>))
        /\ tracker' = [tracker EXCEPT ![cur.id].body = body]
  /\ IF caller = "direct"
     THEN pc' = "switch" /\ UNCHANGED <<queue, cur, caller, sources, result>>
     ELSE Loop(queue)
  /\ UNCHANGED <<env, user, event, re, cascade, arg, ret>>

\* A failed mutation whose error is dropped: the caller goes on.
UpdateIssueFailsAndGoesOn ==
  /\ pc = "mutate"
  /\ calls' = Append(calls, Call("UpdateIssue",
                                 <<cur.id, generateIssueSummary(user, re, cur, sources)>>,
                                 FALSE, <<>>))
  /\ IF caller = "direct"
     THEN pc' = "switch" /\ UNCHANGED <<queue, cur, caller, sources, result>>
     ELSE Loop(queue)
  /\ UNCHANGED <<env, user, event, re, tracker, cascade, arg, ret>>

\* graphql returns an error for the mutation, and the error is returned. The
\* error comes before the request is sent or with the tracker's refusal, and
\* the body stays; or it comes once the tracker has applied the request (the
\* connection is lost, the response cannot be read or is not JSON), and the
\* issue holds the new body.
UpdateIssueFails ==
  /\ pc = "mutate"
  /\ LET body == generateIssueSummary(user, re, cur, sources)
     IN /\ calls' = Append(calls, Call("UpdateIssue", <<cur.id, body>>, FALSE, <<>>))
        /\ \E applied \in BOOLEAN :
             tracker' = IF applied THEN [tracker EXCEPT ![cur.id].body = body] ELSE tracker
  /\ Exit("error")
  /\ UNCHANGED <<env, user, event, re, caller, cascade, queue, cur, sources, arg, ret>>

Next ==
  \/ GithubActionOptions
  \/ GithubActionOptionsFails
  \/ MainIssues
  \/ MainIssueComment
  \/ MainNothing
  \/ NilDereference
  \/ Switch
  \/ GetSummaryIssues
  \/ GetSummaryIssuesFails
  \/ SummarizedIssues
  \/ SummarizedIssuesFails
  \/ UpdateIssue
  \/ UpdateIssueFails

Spec == Init /\ [][Next]_vars

\* ----------------------------------------------------- functions, one call
\* The run is not part of a specification that calls one function.
NoRun ==
  /\ env = <<>> /\ user = "" /\ event = NoEvent
  /\ re = <<>> /\ tracker = <<>> /\ result = "" /\ Idle

RunVars == <<env, user, event, re, tracker, caller, cascade, queue, cur, sources, calls, result>>

\* replaceHeadings(s), for every text of MaxTextLen characters at most.
InitHeadings == arg \in TextsUpTo(MaxTextLen) /\ ret = <<>> /\ pc = "replaceHeadings" /\ NoRun

ReplaceHeadingsCall ==
  /\ pc = "replaceHeadings"
  /\ ret' = replaceHeadings(arg)
  /\ pc' = "returned"
  /\ UNCHANGED <<arg, RunVars>>

SpecHeadings == InitHeadings /\ [][ReplaceHeadingsCall]_vars

\* c.lastMatch(r), for every list of MaxComments comments at most, oldest
\* first, and every regular expression of Patterns.
Bodies == {<<>>, <<"a">>, <<"b">>, <<"a", "b">>}

Patterns == {<<>>, <<"a">>, <<"b">>, <<"a", "b">>}

CommentLists ==
  UNION {{[j \in 1..n |-> [Author |-> "ann", Body |-> b[j], UpdatedAt |-> j]] :
            b \in [1..n -> Bodies]} : n \in 0..MaxComments}

InitSelect ==
  /\ arg \in [c : CommentLists, r : Patterns]
  /\ ret = <<>> /\ pc = "lastMatch" /\ NoRun

LastMatchCall ==
  /\ pc = "lastMatch"
  /\ ret' = lastMatch(arg.c, arg.r)
  /\ pc' = "returned"
  /\ UNCHANGED <<arg, RunVars>>

SpecSelect == InitSelect /\ [][LastMatchCall]_vars

\* generateIssueSummary(opts, si), for every summary issue si, every regular
\* expression of Regexps and every answer of the search: the issues of the
\* tracker, none twice, in any order.
RECURSIVE IdListsUpTo(_)
IdListsUpTo(n) ==
  IF n = 0 THEN {<<>>}
  ELSE LET shorter == IdListsUpTo(n - 1)
       IN shorter \cup UNION {{Append(l, x) : x \in IdSet \ {l[k] : k \in 1..Len(l)}} :
                                 l \in {u \in shorter : Len(u) = n - 1}}

GraphqlIssue(id) == [ID |-> id, Title |-> Title[id], URL |-> URL[id], Comments |-> Comments[id]]

InitRender ==
  /\ arg \in [si : {[id |-> id, title |-> Title[id], labels |-> l] : id \in IdSet, l \in LabelSeqs},
              answer : {[n \in 1..Len(l) |-> GraphqlIssue(l[n])] : l \in IdListsUpTo(Len(Ids))},
              re : Regexps]
  /\ ret = <<>> /\ pc = "generateIssueSummary" /\ NoRun

\* ret is the query summarizedIssues searched with (Nil: no search), the
\* issues it returned, and the body.
GenerateIssueSummaryCall ==
  /\ pc = "generateIssueSummary"
  /\ LET query  == summarizedIssuesQuery(Owner, arg.si)
         issues == IF query = Nil THEN <<>> ELSE arg.answer
     IN ret' = [query |-> query, issues |-> issues,
                body |-> generateIssueSummary(Owner, arg.re, arg.si, issues)]
  /\ pc' = "returned"
  /\ UNCHANGED <<arg, RunVars>>

SpecRender == InitRender /\ [][GenerateIssueSummaryCall]_vars

\* ================================================================= claims

\* ---- replaceHeadings (SpecHeadings)
\* The lines of a text, split at its line breaks.
RECURSIVE SplitLines(_)
SplitLines(s) ==
  IF \A n \in 1..Len(s) : s[n] # "\n" THEN <<s>>
  ELSE LET n == CHOOSE m \in 1..Len(s) : s[m] = "\n" /\ \A k \in 1..(m - 1) : s[k] # "\n"
       IN <<SubSeq(s, 1, n - 1)>> \o SplitLines(SubSeq(s, n + 1, Len(s)))

RECURSIVE JoinLines(_)
JoinLines(ls) ==
  IF Len(ls) = 1 THEN ls[1] ELSE ls[1] \o <<"\n">> \o JoinLines(Tail(ls))

\* The number of # a line begins with.
RECURSIVE LeadingHashes(_)
LeadingHashes(l) == IF l # <<>> /\ Head(l) = "#" THEN 1 + LeadingHashes(Tail(l)) ELSE 0

\* A level-1 or level-2 heading line with three # in place of its one or two;
\* any other line as it is.
DemotedLine(l) ==
  LET h == LeadingHashes(l)
  IN IF h \in {1, 2} THEN <<"#", "#", "#">> \o SubSeq(l, h + 1, Len(l)) ELSE l

DemotedText(s) == JoinLines([n \in 1..Len(SplitLines(s)) |-> DemotedLine(SplitLines(s)[n])])

\* C8: replaceHeadings rewrites each line that is a level-1 or level-2 heading
\* into the same line with exactly three leading # and the rest of the line
\* kept, and leaves every other line of the text unchanged.
C8_HeadingLinesDemotedOthersKept ==
  pc = "returned" => ret = DemotedText(arg)

\* ---- comments.lastMatch (SpecSelect)
\* The indexes of the comments whose body matches the filter.
MatchingIndexes(c, r) == {j \in 1..Len(c) : MatchString(r, c[j].Body)}

\* C6: lastMatch returns the comment with the greatest index whose body
\* matches the filter; no match exactly when no comment matches (so for the
\* empty list); and, with an empty filter, the last comment of a list that
\* is not empty.
C6_LastMatchIsNewestMatching ==
  pc = "returned" =>
    LET m == MatchingIndexes(arg.c, arg.r)
    IN /\ (ret = Nil) = (m = {})
       /\ m # {} => ret = <<arg.c[CHOOSE j \in m : \A k \in m : k <= j]>>
       /\ (arg.r = <<>> /\ arg.c # <<>>) => ret = <<arg.c[Len(arg.c)]>>

\* An older matching comment is returned past a newer one that does not match.
C6_Witness ==
  /\ pc = "returned" /\ Len(arg.c) = 3 /\ arg.r = <<"a">>
  /\ arg.c[1].Body = <<"b">> /\ arg.c[2].Body = <<"a", "b">> /\ arg.c[3].Body = <<"b">>
  /\ ret = <<arg.c[2]>> /\ ret[1].UpdatedAt = 2

\* ---- generateIssueSummary (SpecRender)
Pieces(body, kinds) == SelectSeq(body, LAMBDA piece : piece[1] \in kinds)

OtherIssues(issues, si) == SelectSeq(issues, LAMBDA i : i.ID # si.id)

\* C3: the body holds no section (heading, comment body or "No update") for a
\* source issue with the summary issue's id, and exactly one section for
\* every source issue with another id, in the order the search returned them.
C3_NoSectionForItselfOneForEachOther ==
  pc = "returned" =>
    LET others   == OtherIssues(ret.issues, arg.si)
        headings == Pieces(ret.body, {"heading"})
        content  == Pieces(ret.body, {"comment", "noupdate"})
    IN /\ Len(headings) = Len(others)
       /\ \A n \in 1..Len(others) :
            headings[n] = <<"heading", others[n].Title, others[n].URL>>
       /\ Len(content) = Len(others)
       /\ \A n \in 1..Len(ret.body) :
            /\ ret.body[n][1] = "heading" =>
                 /\ ret.body[n][3] # URL[arg.si.id]
                 /\ n < Len(ret.body) /\ ret.body[n + 1][1] \in {"comment", "noupdate"}
            /\ ret.body[n][1] \in {"comment", "noupdate"} => ret.body[n - 1][1] = "heading"

\* The search returned the summary issue between two other issues.
C3_Witness ==
  /\ pc = "returned" /\ Len(ret.issues) = 3
  /\ ret.issues[2].ID = arg.si.id /\ ret.issues[1].ID = "I3"
  /\ Len(Pieces(ret.body, {"heading"})) = 2

\* C7: the body is the preamble line followed by the one line "No matching
\* issues." if and only if the source list holds no issue with an id other
\* than the summary issue's; a summary issue with no label but summary
\* searches for nothing and gets that body with no search link in its preamble.
C7_EmptyResultBodyIffNoOtherIssue ==
  pc = "returned" =>
    /\ (/\ Len(ret.body) = 2
        /\ ret.body[1][1] = "preamble"
        /\ ret.body[2] = <<"nomatch">>)
         = (\A n \in 1..Len(ret.issues) : ret.issues[n].ID = arg.si.id)
    /\ (\A n \in 1..Len(arg.si.labels) : arg.si.labels[n] = "summary") =>
         /\ ret.query = Nil
         /\ ret.body = <<<<"preamble", arg.re, Nil>>, <<"nomatch">>>>

\* Only the summary issue itself matched its filter.
C7_Witness ==
  /\ pc = "returned" /\ ret.query # Nil
  /\ Len(ret.issues) = 1 /\ ret.issues[1].ID = arg.si.id
  /\ Len(ret.body) = 2 /\ ret.body[2] = <<"nomatch">> /\ ret.body[1][3] # Nil

\* ---- the run (Spec)
Mutations == {k \in 1..Len(calls) : calls[k].kind = "UpdateIssue"}

Done == pc = "exit"

\* The labels of l other than summary, and the filter that names them.
OwnLabels(l) == SelectSeq(l, LAMBDA name : name # "summary")

SourceQueryFor(l) == "user:acme " \o FilterText(OwnLabels(l))

\* An issues event whose issue carries summary, with one of the four actions.
DirectDue ==
  /\ event.Name = "issues" /\ event.Issue # Nil
  /\ \E n \in 1..Len(event.Issue[1].Labels) : event.Issue[1].Labels[n] = "summary"
  /\ event.Action \in {"edited", "labeled", "unlabeled", "opened"}

\* C1: in every run each summary issue receives at most one body-update
\* mutation, also when the cascade's summary-issue query returns the issue
\* the run has already regenerated directly.
C1_EachSummaryIssueMutatedAtMostOnce ==
  \A j, k \in Mutations : calls[j].arg[1] = calls[k].arg[1] => j = k

\* A labeled or unlabeled issues event whose label is not summary.
LabelChanged ==
  /\ event.Name = "issues" /\ event.Action \in {"labeled", "unlabeled"}
  /\ event.Label # Nil /\ event.Label[1].Name # "summary"

\* C2: on such an event the run issues the summary-issue query with the
\* filter of the changed label alone and then, for every summary issue the
\* query returns, a source-issue query with the filter of all of that issue's
\* own labels but summary, and writes the body rendered from that query's
\* result to that issue.
C2_CascadeUsesEachIssuesOwnLabels ==
  (Done /\ result = "ok" /\ LabelChanged) =>
    /\ \E q \in 1..Len(calls) : calls[q].kind = "SummaryIssues"
    /\ LET q    == CHOOSE k \in 1..Len(calls) : calls[k].kind = "SummaryIssues"
           resp == calls[q].resp
       IN /\ calls[q].arg = <<"is:open user:acme label:summary label:\""
                                \o event.Label[1].Name \o "\"">>
          /\ \A k \in 1..Len(calls) : calls[k].kind = "SummaryIssues" => k = q
          /\ Len(calls) = q + 2 * Len(resp)
          /\ \A n \in 1..Len(resp) :
               LET search == calls[q + 2 * n - 1]
                   update == calls[q + 2 * n]
                   si     == [id |-> resp[n].ID, title |-> resp[n].Title, labels |-> resp[n].Labels]
               IN /\ search.kind = "SearchIssues" /\ search.ok
                  /\ search.arg = <<SourceQueryFor(resp[n].Labels)>>
                  /\ update.kind = "UpdateIssue" /\ update.ok
                  /\ update.arg = <<resp[n].ID, generateIssueSummary(Owner, re, si, search.resp)>>
                  /\ tracker[resp[n].ID].body = update.arg[2]

\* docs was added; a summary issue that carries bug and docs is regenerated
\* from both, and another summary issue after it.
C2_Witness ==
  /\ Done /\ result = "ok" /\ LabelChanged /\ event.Label[1].Name = "docs"
  /\ \E q \in 1..Len(calls) :
       /\ calls[q].kind = "SummaryIssues" /\ Len(calls[q].resp) = 2
       /\ calls[q].resp[1].Labels = <<"bug", "docs", "summary">>
       /\ calls[q + 1].arg = <<"user:acme label:\"bug\",\"docs\"">>
       /\ Len(calls) = q + 4

\* githubActionOptions has returned the options: the repository has an
\* owner, the event file is read and is JSON, the event has a name, and the
\* arguments are the regular expression, which compiles, or none.
OptionsRead ==
  /\ pc # "options"
  /\ Len(env.GITHUB_REPOSITORY) >= 2 /\ env.GITHUB_REPOSITORY[1] # ""
  /\ env.GITHUB_EVENT_PATH # "" /\ env.GITHUB_EVENT_NAME # ""
  /\ env.file # Nil /\ env.file[1].json
  /\ env.args \in {[flag |-> "", value |-> <<>>]}
                   \cup {[flag |-> "summaryCommentRegex", value |-> r] : r \in Regexps}

\* The outcomes the run has nothing to do in.
NotActionable == event.Name \notin {"issues", "issue_comment"}

NoQualifyingLabels ==
  /\ \/ event.Name = "issues" /\ event.Action = "opened"
     \/ event.Name = "issue_comment"
  /\ event.Issue # Nil
  /\ OwnLabels(event.Issue[1].Labels) = <<>>

NoMatch(kinds) ==
  \E k \in 1..Len(calls) : calls[k].kind \in kinds /\ calls[k].ok /\ calls[k].resp = <<>>

\* C4, as claimed: a run ends successfully and performs no body-update
\* mutation when the event kind is not actionable, the subject issue of an
\* opened or comment event has no label but summary, or a query returns no
\* issue. (Stated of the runs whose options are read and in which no call
\* fails.)
C4_NoOpOutcomesWriteNothing ==
  (/\ Done /\ OptionsRead /\ \A k \in 1..Len(calls) : calls[k].ok
   /\ (NotActionable \/ NoQualifyingLabels \/ NoMatch({"SummaryIssues", "SearchIssues"}))) =>
    /\ result = "ok"
    /\ Mutations = {}

\* C4, amended: once the options are read, in the outcomes above (the query
\* being the summary-issue query), a run whose event calls for no direct regeneration of its subject
\* ends successfully without a mutation; one whose event does makes that one
\* mutation at most, before any summary-issue query, and ends successfully
\* unless a call of that regeneration fails.
C4_NoOpOutcomesWriteNothingButDirect ==
  (Done /\ OptionsRead /\ (NotActionable \/ NoQualifyingLabels \/ NoMatch({"SummaryIssues"}))) =>
    IF DirectDue
    THEN /\ \A k \in Mutations :
              /\ calls[k].arg[1] = event.Issue[1].ID
              /\ \A j \in 1..k : calls[j].kind # "SummaryIssues"
         /\ Cardinality(Mutations) <= 1
         /\ (result = "ok") = (\A k \in 1..Len(calls) : calls[k].ok)
         /\ result = "ok" => Cardinality(Mutations) = 1
    ELSE result = "ok" /\ Mutations = {}

\* bug was removed from a summary issue: it is regenerated, and no summary
\* issue carries bug.
C4_Witness ==
  /\ Done /\ result = "ok" /\ DirectDue /\ event.Action = "unlabeled"
  /\ NoMatch({"SummaryIssues"})
  /\ Cardinality(Mutations) = 1

\* The body of the last successful mutation of id, its old body without one.
WrittenBody(id) ==
  LET done == {k \in Mutations : calls[k].ok /\ calls[k].arg[1] = id}
  IN IF done = {} THEN OldBody(id)
     ELSE calls[CHOOSE k \in done : \A j \in done : j <= k].arg[2]

\* C5: a failed search or mutation is the last call of the run, which ends
\* with the error; an issue with a successful mutation holds the body of its
\* last one, an issue no mutation was sent for holds its previous body, and
\* the issue of a failed mutation holds the body it held or the one sent; and
\* no issue the loop had yet to come to was written by the loop. A run that
\* ends with an error without a failed call is one whose options were
\* refused, and made no call.
C5_FailedCallEndsTheRun ==
  /\ \A k \in 1..Len(calls) :
       ~calls[k].ok => k = Len(calls) /\ Done /\ result = "error"
  /\ result = "error" => IF OptionsRead THEN calls # <<>> /\ ~calls[Len(calls)].ok
                                         ELSE calls = <<>>
  /\ \A id \in IdSet :
       LET sent   == {k \in Mutations : calls[k].arg[1] = id}
           failed == {k \in sent : ~calls[k].ok}
       IN /\ (\E k \in sent : calls[k].ok) => tracker[id].body = WrittenBody(id)
          /\ sent = {} => tracker[id].body = OldBody(id)
          /\ tracker[id].body \in {WrittenBody(id)} \cup {calls[k].arg[2] : k \in failed}
  /\ result = "error" =>
       \A n \in 1..Len(queue) : \A k \in Mutations :
         calls[k].arg[1] = queue[n].ID => \A j \in 1..k : calls[j].kind # "SummaryIssues"

\* The second mutation of the loop failed once the tracker had applied it,
\* with a third issue yet to come.
C5_Witness ==
  /\ Done /\ result = "error" /\ Len(queue) = 1
  /\ calls[Len(calls)].kind = "UpdateIssue"
  /\ \E k \in Mutations : calls[k].ok /\ tracker[calls[k].arg[1]].body = calls[k].arg[2]
  /\ tracker[queue[1].ID].body = OldBody(queue[1].ID)
  /\ cur.id \notin {calls[k].arg[1] : k \in {j \in Mutations : calls[j].ok}}
  /\ tracker[cur.id].body = calls[Len(calls)].arg[2]
  /\ tracker[cur.id].body # OldBody(cur.id)

\* C9, as claimed: once the first mutation has been sent, no search call is
\* made.
C9_AllSearchesBeforeAnyMutation ==
  \A j, k \in 1..Len(calls) :
    (j < k /\ calls[j].kind = "UpdateIssue") => calls[k].kind = "UpdateIssue"

\* C9, amended: the calls are made one after another, and each regeneration
\* reads before it writes: a mutation comes right after the source-issue
\* search for the same summary issue (after no search if the issue has no
\* label but summary), a successful search is followed by nothing but that
\* mutation, and what follows a mutation is the summary-issue query or the
\* next regeneration.
C9_EachMutationFollowsItsOwnSearch ==
  \A k \in 1..Len(calls) :
    /\ calls[k].kind = "UpdateIssue" =>
         LET own == OwnLabels(tracker[calls[k].arg[1]].labels)
         IN IF own = <<>>
            THEN k = 1 \/ calls[k - 1].kind # "SearchIssues"
            ELSE /\ k > 1
                 /\ calls[k - 1].kind = "SearchIssues" /\ calls[k - 1].ok
                 /\ calls[k - 1].arg = <<"user:acme " \o FilterText(own)>>
    /\ (calls[k].kind = "SearchIssues" /\ k < Len(calls)) =>
         /\ calls[k + 1].kind = "UpdateIssue"
         /\ calls[k].arg = <<SourceQueryFor(tracker[calls[k + 1].arg[1]].labels)>>
    /\ (calls[k].kind = "UpdateIssue" /\ k < Len(calls) /\ calls[k + 1].kind = "UpdateIssue") =>
         OwnLabels(tracker[calls[k + 1].arg[1]].labels) = <<>>

\* Two summary issues were regenerated: search, mutation, search, mutation.
C9_Witness ==
  /\ Done /\ result = "ok" /\ Len(calls) = 5
  /\ calls[1].kind = "SummaryIssues"
  /\ calls[2].kind = "SearchIssues" /\ calls[3].kind = "UpdateIssue"
  /\ calls[4].kind = "SearchIssues" /\ calls[5].kind = "UpdateIssue"
  /\ calls[3].arg[1] # calls[5].arg[1]

\* C10: a run on an issues or issue_comment event whose payload leaves out
\* the issue, or the label of a labeled or unlabeled action, ends with
\* success or with a returned error, never with a crash.
C10_AbsentFieldNeverCrashes ==
  (/\ event.Name \in {"issues", "issue_comment"}
   /\ \/ event.Issue = Nil
      \/ event.Action \in {"labeled", "unlabeled"} /\ event.Label = Nil)
    => result # "panic"

====
